---- MODULE Spec2Model ----
(***************************************************************************)
(* Gift box / wallet settlement subsystem of the wishcube backend.         *)
(*                                                                         *)
(* Every request handler is an async function: between two awaits the      *)
(* code runs alone, at an await any other request may run.  A handler is   *)
(* therefore one action per await: the database operation awaited and the  *)
(* synchronous code that follows it up to the next await.                  *)
(*                                                                         *)
(* document.save() is Mongoose's: it writes the paths the handler changed  *)
(* on its own copy of the document.  A changed scalar is written as the    *)
(* copy's value ($set), an array push is appended ($push) and increments   *)
(* the document version __v, a changed field of an array element is        *)
(* written by index ($set) under the condition that __v is still the       *)
(* version that was loaded (VersionError otherwise), without incrementing  *)
(* it.                                                                      *)
(*                                                                         *)
(* Amounts are whole naira; gateway amounts are kobo, multiples of 100.    *)
(***************************************************************************)
EXTENDS Integers, Sequences, FiniteSets, TLC

\* ------------------------------------------------------------------ bounds
MaxInFlight == 2      \* requests being handled at the same time
MaxRequests == 3      \* requests received in one behaviour
MaxStock == 2         \* largest tracked stock of the catalog at the start

\* --------------------------------------------------------------- constants
MinFundAmount == 100  \* fundWalletValidator: isFloat({ min: 100 })
KoboPerNaira == 100   \* amount * 100 / amount / 100 at the gateway boundary

Slots == 1..MaxInFlight
Users == {"u1", "u2"}
Gifts == {"g1", "g2"}
Cards == {"c1"}
Websites == {"w1"}
None == "none"

\* Inputs requests are drawn from.
FundAmounts == {MinFundAmount}
PayloadAmounts == {MinFundAmount * KoboPerNaira, 2 * MinFundAmount * KoboPerNaira}
Quantities == {1, 2}
BoxQuantities == {-1, 1, 2}
Events == {"charge.success", "transfer.success"}

VARIABLES
    wallets,    \* Wallet collection: one document per user, or none yet
    gifts,      \* Gift collection (the catalog)
    giftBoxes,  \* GiftBox collection, in insertion order
    cards,      \* Card collection: owner and giftBox back-reference
    websites,   \* Website collection: owner and giftBox back-reference
    gateway,    \* references Paystack has initialized a payment for
    refCount,   \* payment references generated so far
    req,        \* per slot: the request in flight, or the last response
    received,   \* number of requests received
    limit,      \* requests the server handles at the same time
    rsvps       \* RSVP collection: per event and guest email, one document or none

vars == <<wallets, gifts, giftBoxes, cards, websites, gateway, refCount, req, received,
          limit, rsvps>>

\* ------------------------------------------------------------- documents
\* transactionSchema: type, amount, reference, status.
Tx(type, amount, reference, status) ==
    [type |-> type, amount |-> amount, reference |-> reference, status |-> status]

\* No Wallet document for a user yet.
NoWallet == [exists |-> FALSE, balance |-> 0, transactions |-> <<>>, v |-> 0]

\* Wallet.create({ userId }): the schema defaults.
NewWallet == [exists |-> TRUE, balance |-> 0, transactions |-> <<>>, v |-> 0]

\* `WC_${Date.now()}_${random}`: a reference not generated before.
generatePaymentReference == <<"WC", refCount + 1>>

\* `GIFT_${Date.now()}` is written with the purchase; no handler looks it up.
GiftReference == <<"GIFT", 0>>

\* `REDEEM_${giftBox.redemptionCode}`
RedeemReference(code) == <<"REDEEM", code>>

\* transactions.find((t) => t.reference === reference): the first match, 0 if none.
FindTx(txs, reference) ==
    IF \E i \in 1..Len(txs) : txs[i].reference = reference
    THEN CHOOSE i \in 1..Len(txs) :
            /\ txs[i].reference = reference
            /\ \A j \in 1..(i - 1) : txs[j].reference # reference
    ELSE 0

\* Wallet.findOne({ "transactions.reference": reference }): the users whose
\*  wallet holds such a transaction.
WalletsWithReference(reference) ==
    {u \in Users : wallets[u].exists /\ FindTx(wallets[u].transactions, reference) # 0}

\* ------------------------------------------------------------- requests
\* A request in flight: the handler (op), the await it is at (pc), its input
\*  (in) and its local variables (loc); once answered: the status (res).
NoLoc == <<>>
Idle == [op |-> "none", pc |-> "idle", res |-> 0, in |-> <<>>, loc |-> NoLoc]

Request(op, pc, in, loc) == [op |-> op, pc |-> pc, res |-> 0, in |-> in, loc |-> loc]

Free(s) == req[s].pc \in {"idle", "done"}

\* A request is received on the first free slot (which slot is immaterial).
Receives(s) ==
    /\ received < MaxRequests
    /\ Cardinality({t \in Slots : ~Free(t)}) < limit
    /\ Free(s)
    /\ \A t \in Slots : t < s => ~Free(t)

At(s, op, pc) == req[s].op = op /\ req[s].pc = pc

\* res.status(code).json(...): the handler is over.
Respond(r, code) == [r EXCEPT !.pc = "done", !.res = code, !.loc = NoLoc]

\* The handler goes on to its next await with these local variables.
Goto(r, pc, loc) == [r EXCEPT !.pc = pc, !.loc = loc]

\* ------------------------------------------------------------- fundWallet
\* transactions.push({ type: "credit", amount, reference, status: "pending" });
\*  wallet.save(): $push of the transaction.
PendingWallet(w, amount, reference) ==
    [w EXCEPT !.transactions = Append(@, Tx("credit", amount, reference, "pending")),
              !.v = @ + 1]

\* Wallet.findOne({ userId }) of getOrCreateWallet.
fundWallet_findOne(s) ==
    /\ Receives(s)
    /\ \E u \in Users, amount \in FundAmounts, ok \in BOOLEAN :
        /\ received' = received + 1
        /\ LET r == Request("fundWallet", "create", [user |-> u, amount |-> amount], NoLoc)
           IN  req' = [req EXCEPT ![s] =
                    IF ~ok THEN Respond(r, 500)
                    ELSE IF wallets[u].exists THEN Goto(r, "save", NoLoc)
                    ELSE r]
        /\ UNCHANGED <<wallets, gifts, giftBoxes, cards, websites, gateway, refCount, limit, rsvps>>

\* Wallet.create({ userId }) of getOrCreateWallet: userId is unique.
fundWallet_create(s) ==
    /\ At(s, "fundWallet", "create")
    /\ LET u == req[s].in.user
       IN  IF wallets[u].exists
           THEN /\ req' = [req EXCEPT ![s] = Respond(@, 500)]
                /\ UNCHANGED wallets
           ELSE /\ wallets' = [wallets EXCEPT ![u] = NewWallet]
                /\ req' = [req EXCEPT ![s] = Goto(@, "save", NoLoc)]
    /\ UNCHANGED <<gifts, giftBoxes, cards, websites, gateway, refCount, received, limit, rsvps>>

\* generatePaymentReference(), the push of the pending transaction and
\*  wallet.save().
fundWallet_save(s) ==
    \E ok \in BOOLEAN :
        /\ At(s, "fundWallet", "save")
        /\ refCount' = refCount + 1
        /\ LET u == req[s].in.user
               reference == generatePaymentReference
           IN  IF ok
               THEN /\ wallets' = [wallets EXCEPT ![u] =
                                      PendingWallet(@, req[s].in.amount, reference)]
                    /\ req' = [req EXCEPT ![s] =
                                  Goto(@, "initialize", [reference |-> reference])]
               ELSE /\ req' = [req EXCEPT ![s] = Respond(@, 500)]
                    /\ UNCHANGED wallets
        /\ UNCHANGED <<gifts, giftBoxes, cards, websites, gateway, received, limit, rsvps>>

\* initializePayment(email, amount, reference): Paystack answers or fails.
fundWallet_initialize(s) ==
    \E ok \in BOOLEAN :
        /\ At(s, "fundWallet", "initialize")
        /\ IF ok
           THEN /\ gateway' = gateway \cup {req[s].loc.reference}
                /\ req' = [req EXCEPT ![s] = Respond(@, 200)]
           ELSE /\ req' = [req EXCEPT ![s] = Respond(@, 500)]
                /\ UNCHANGED gateway
        /\ UNCHANGED <<wallets, gifts, giftBoxes, cards, websites, refCount, received, limit, rsvps>>

\* ---------------------------------------------------- settling a funding
\* transaction && transaction.status === "pending"
IsPending(tx) == tx.status = "pending"

\* The copy of the wallet a settling handler works on: the document loaded
\*  by findOne, with the index of the transaction found in it.
LoadedWallet(u, reference) ==
    LET w == wallets[u]
        i == FindTx(w.transactions, reference)
    IN  [userId |-> u, balance |-> w.balance, v |-> w.v, index |-> i,
         amount |-> w.transactions[i].amount]

\* save() of a changed array element is conditional on the loaded version.
VersionMatches(w, doc) == w.v = doc.v

\* A settlement that also records the amount credited in the transaction.
SettledWallet_amount(w, doc, balance) ==
    [w EXCEPT !.transactions[doc.index].status = "completed",
              !.transactions[doc.index].amount = balance - doc.balance,
              !.balance = balance]

\* wallet.save() after transaction.status = "completed" and a new balance:
\*  $set of transactions.<index>.status and of balance.
SettledWallet(w, doc, balance) ==
    [w EXCEPT !.transactions[doc.index].status = "completed",
              !.balance = balance]

\* The credit counted twice.
verifyCredit_twice(doc) == doc.balance + 2 * doc.amount

\* wallet.balance += transaction.amount
verifyCredit(doc) == doc.balance + doc.amount

\* wallet.balance += amount / 100
webhookCredit(doc, amount) == doc.balance + (amount \div KoboPerNaira)

\* The references a request may name: those generated so far and one more.
References == {<<"WC", n>> : n \in 1..(refCount + 1)}

\* -------------------------------------------------- verifyWalletPayment
\* verifyPayment(reference): Paystack knows the reference or the call throws;
\*  the status it reports is the payer's doing.
verifyWalletPayment_verify(s) ==
    /\ Receives(s)
    /\ \E reference \in References, status \in {"success", "abandoned"} :
        /\ received' = received + 1
        /\ LET r == Request("verifyWalletPayment", "findOne",
                            [reference |-> reference, status |-> status], NoLoc)
           IN  req' = [req EXCEPT ![s] =
                    IF reference \notin gateway THEN Respond(r, 500)
                    ELSE IF status # "success" THEN Respond(r, 400)
                    ELSE r]
        /\ UNCHANGED <<wallets, gifts, giftBoxes, cards, websites, gateway, refCount, limit, rsvps>>

\* Wallet.findOne({ "transactions.reference": reference }) and the look at
\*  the transaction.
verifyWalletPayment_findOne(s) ==
    \E ok \in BOOLEAN :
        /\ At(s, "verifyWalletPayment", "findOne")
        /\ LET found == WalletsWithReference(req[s].in.reference)
           IN  IF ~ok THEN req' = [req EXCEPT ![s] = Respond(@, 500)]
               ELSE IF found = {} THEN req' = [req EXCEPT ![s] = Respond(@, 404)]
               ELSE \E u \in found :
                    LET doc == LoadedWallet(u, req[s].in.reference)
                    IN  IF IsPending(wallets[u].transactions[doc.index])
                        THEN req' = [req EXCEPT ![s] = Goto(@, "save", doc)]
                        ELSE req' = [req EXCEPT ![s] = Respond(@, 200)]
        /\ UNCHANGED <<wallets, gifts, giftBoxes, cards, websites, gateway, refCount,
                       received, limit, rsvps>>

\* transaction.status = "completed"; wallet.balance += transaction.amount;
\*  wallet.save()
verifyWalletPayment_save(s) ==
    \E ok \in BOOLEAN :
        /\ At(s, "verifyWalletPayment", "save")
        /\ LET doc == req[s].loc
               w == wallets[doc.userId]
           IN  IF ok /\ VersionMatches(w, doc)
               THEN /\ wallets' = [wallets EXCEPT ![doc.userId] =
                                      SettledWallet(w, doc, verifyCredit(doc))]
                    /\ req' = [req EXCEPT ![s] = Respond(@, 200)]
               ELSE /\ req' = [req EXCEPT ![s] = Respond(@, 500)]
                    /\ UNCHANGED wallets
        /\ UNCHANGED <<gifts, giftBoxes, cards, websites, gateway, refCount, received, limit, rsvps>>

\* ------------------------------------------------------ paystackWebhook
\* env.paystack.secretKey, and a key that is not it.
SecretKey == "sk_live"
OtherKey == "sk_other"

\* crypto.createHmac("sha512", key).update(payload).digest("hex"): equal
\*  digests come from equal keys and equal payloads only.
Hmac(key, payload) == <<key, payload>>

\* The texts of one JSON value: the one JSON.stringify writes, and one with
\*  the same members written otherwise (white space between the tokens).
Forms == {"compact", "spaced"}

\* The request bodies a webhook request may carry, as sent.
RawBodies ==
    [event : Events, reference : References, amount : PayloadAmounts, form : Forms]

\* express.json(): req.body is the value the text denotes.
ParseJson(raw) ==
    [event |-> raw.event, reference |-> raw.reference, amount |-> raw.amount]

\* JSON.stringify(req.body): the compact text of the value.
Stringify(body) ==
    [event |-> body.event, reference |-> body.reference, amount |-> body.amount,
     form |-> "compact"]

\* hash === signature
verifyWebhookSignature(payload, signature) == Hmac(SecretKey, payload) = signature

\* The texts that differ from this one in the reference, in the amount or in
\*  the form only.
Tampered(raw) ==
    {t \in RawBodies :
        /\ t.event = raw.event
        /\ Cardinality({f \in {"reference", "amount", "form"} : t[f] # raw[f]}) = 1}

\* The x-paystack-signature headers a request with this body may carry: none,
\*  this text signed with another key, Paystack's signature of this text, or
\*  Paystack's signature of the text this one was made of by tampering.
Signatures(raw) ==
    {<<>>, Hmac(OtherKey, raw), Hmac(SecretKey, raw)}
        \cup {Hmac(SecretKey, t) : t \in Tampered(raw)}

\* The signature check, the event test and Wallet.findOne with the look at
\*  the transaction.
paystackWebhook_findOne(s) ==
    /\ Receives(s)
    /\ \E raw \in RawBodies :
       \E signature \in Signatures(raw) :
        /\ received' = received + 1
        /\ LET body == ParseJson(raw)
               r == Request("paystackWebhook", "save",
                            [raw |-> raw, signature |-> signature], NoLoc)
               found == WalletsWithReference(body.reference)
           IN  IF ~verifyWebhookSignature(Stringify(body), signature)
               THEN req' = [req EXCEPT ![s] = Respond(r, 400)]
               ELSE IF body.event # "charge.success"
               THEN req' = [req EXCEPT ![s] = Respond(r, 200)]
               ELSE \E ok \in BOOLEAN :
                    IF ~ok THEN req' = [req EXCEPT ![s] = Respond(r, 500)]
                    ELSE IF found = {} THEN req' = [req EXCEPT ![s] = Respond(r, 200)]
                    ELSE \E u \in found :
                         LET doc == LoadedWallet(u, body.reference)
                         IN  IF IsPending(wallets[u].transactions[doc.index])
                             THEN req' = [req EXCEPT ![s] = Goto(r, "save", doc)]
                             ELSE req' = [req EXCEPT ![s] = Respond(r, 200)]
        /\ UNCHANGED <<wallets, gifts, giftBoxes, cards, websites, gateway, refCount, limit, rsvps>>

\* transaction.status = "completed"; wallet.balance += amount / 100;
\*  wallet.save()
paystackWebhook_save(s) ==
    \E ok \in BOOLEAN :
        /\ At(s, "paystackWebhook", "save")
        /\ LET doc == req[s].loc
               w == wallets[doc.userId]
           IN  IF ok /\ VersionMatches(w, doc)
               THEN /\ wallets' = [wallets EXCEPT ![doc.userId] =
                            SettledWallet(w, doc,
                                          webhookCredit(doc, ParseJson(req[s].in.raw).amount))]
                    /\ req' = [req EXCEPT ![s] = Respond(@, 200)]
               ELSE /\ req' = [req EXCEPT ![s] = Respond(@, 500)]
                    /\ UNCHANGED wallets
        /\ UNCHANGED <<gifts, giftBoxes, cards, websites, gateway, refCount, received, limit, rsvps>>

\* --------------------------------------------------------- purchaseGift
\* gift.stock !== undefined
StockTracked(gift) == gift.tracked

\* gift.stock !== undefined && gift.stock < quantity
InsufficientStock(gift, quantity) == StockTracked(gift) /\ gift.stock < quantity

\* The price of one unit whatever the quantity.
TotalPrice_unit(gift, quantity) == gift.price

\* gift.price * quantity
TotalPrice(gift, quantity) == gift.price * quantity

\* The balance test left out.
InsufficientBalance_noWallet(w, totalPrice) == ~w.exists

\* !wallet || wallet.balance < totalPrice
InsufficientBalance(w, totalPrice) == ~w.exists \/ w.balance < totalPrice

\* wallet.balance -= totalPrice; transactions.push({ type: "debit", ...,
\*  status: "completed" }); wallet.save(): $set of the copy's balance, $push of
\*  the transaction.
DebitedWallet(w, balance, totalPrice) ==
    [w EXCEPT !.balance = balance - totalPrice,
              !.transactions = Append(@, Tx("debit", totalPrice, GiftReference, "completed")),
              !.v = @ + 1]

\* gift.stock -= quantity; gift.save(): $set of the copy's stock.
DecrementedGift(g, stock, quantity) == [g EXCEPT !.stock = stock - quantity]

\* Gift.findById(giftId) with the active and stock checks.
purchaseGift_findGift(s) ==
    /\ Receives(s)
    /\ \E u \in Users, giftId \in Gifts, quantity \in Quantities, ok \in BOOLEAN :
        /\ received' = received + 1
        /\ LET gift == gifts[giftId]
               r == Request("purchaseGift", "findWallet",
                            [user |-> u, giftId |-> giftId, quantity |-> quantity],
                            [gift |-> gift, balance |-> 0])
           IN  req' = [req EXCEPT ![s] =
                    IF ~ok THEN Respond(r, 500)
                    ELSE IF ~gift.exists \/ ~gift.isActive THEN Respond(r, 404)
                    ELSE IF InsufficientStock(gift, quantity) THEN Respond(r, 400)
                    ELSE r]
        /\ UNCHANGED <<wallets, gifts, giftBoxes, cards, websites, gateway, refCount, limit, rsvps>>

\* Wallet.findOne({ userId }) with the balance check.
purchaseGift_findWallet(s) ==
    \E ok \in BOOLEAN :
        /\ At(s, "purchaseGift", "findWallet")
        /\ LET w == wallets[req[s].in.user]
               totalPrice == TotalPrice(req[s].loc.gift, req[s].in.quantity)
           IN  req' = [req EXCEPT ![s] =
                    IF ~ok THEN Respond(@, 500)
                    ELSE IF InsufficientBalance(w, totalPrice) THEN Respond(@, 400)
                    ELSE Goto(@, "saveWallet", [@.loc EXCEPT !.balance = w.balance])]
        /\ UNCHANGED <<wallets, gifts, giftBoxes, cards, websites, gateway, refCount,
                       received, limit, rsvps>>

\* The debit and wallet.save().
purchaseGift_saveWallet(s) ==
    \E ok \in BOOLEAN :
        /\ At(s, "purchaseGift", "saveWallet")
        /\ LET u == req[s].in.user
               totalPrice == TotalPrice(req[s].loc.gift, req[s].in.quantity)
           IN  IF ok
               THEN /\ wallets' = [wallets EXCEPT ![u] =
                                      DebitedWallet(@, req[s].loc.balance, totalPrice)]
                    /\ req' = [req EXCEPT ![s] =
                                  IF StockTracked(req[s].loc.gift)
                                  THEN Goto(@, "saveGift", @.loc)
                                  ELSE Respond(@, 200)]
               ELSE /\ req' = [req EXCEPT ![s] = Respond(@, 500)]
                    /\ UNCHANGED wallets
        /\ UNCHANGED <<gifts, giftBoxes, cards, websites, gateway, refCount, received, limit, rsvps>>

\* The stock decrement and gift.save().
purchaseGift_saveGift(s) ==
    \E ok \in BOOLEAN :
        /\ At(s, "purchaseGift", "saveGift")
        /\ LET giftId == req[s].in.giftId
           IN  IF ok /\ gifts[giftId].exists
               THEN /\ gifts' = [gifts EXCEPT ![giftId] =
                            DecrementedGift(@, req[s].loc.gift.stock, req[s].in.quantity)]
                    /\ req' = [req EXCEPT ![s] = Respond(@, 200)]
               ELSE /\ req' = [req EXCEPT ![s] = Respond(@, 500)]
                    /\ UNCHANGED gifts
        /\ UNCHANGED <<wallets, giftBoxes, cards, websites, gateway, refCount, received, limit, rsvps>>

\* --------------------------------------------------------- addToGiftBox
\* GiftBox.findOne({ senderId, ...(cardId ? { cardId } : { websiteId }),
\*  isRedeemed: false }): the first such box, 0 if none.
OpenBoxes(u, cardId, websiteId) ==
    {b \in 1..Len(giftBoxes) :
        /\ giftBoxes[b].senderId = u
        /\ IF cardId # None THEN giftBoxes[b].cardId = cardId
                            ELSE giftBoxes[b].websiteId = websiteId
        /\ ~giftBoxes[b].isRedeemed}

FindOpenBox(u, cardId, websiteId) ==
    LET open == OpenBoxes(u, cardId, websiteId)
    IN  IF open = {} THEN 0 ELSE CHOOSE b \in open : \A c \in open : b <= c

\* generateRedemptionCode(): a code no other box has.
generateRedemptionCode == Len(giftBoxes) + 1

\* A box document without a redemption code yet.
NoCode == 0

\* The hook with its test left out: a code is generated at every save.
preSave_regenerates(box) == [box EXCEPT !.redemptionCode = generateRedemptionCode]

\* giftBoxSchema.pre("save"): if (!this.redemptionCode) this.redemptionCode =
\*  generateRedemptionCode()
preSave(box) ==
    IF box.redemptionCode = NoCode
    THEN [box EXCEPT !.redemptionCode = generateRedemptionCode]
    ELSE box

\* GiftBox.create({ senderId, cardId, websiteId, recipientEmail, gifts: [] }),
\*  which saves the new document.
NewGiftBox(u, cardId, websiteId) ==
    preSave([senderId |-> u, cardId |-> cardId, websiteId |-> websiteId,
             gifts |-> <<>>, isRedeemed |-> FALSE, redemptionCode |-> NoCode,
             v |-> 0])

\* giftBox.gifts.find((g) => g.giftId.toString() === giftId): first match, 0 if none.
FindItem(items, giftId) ==
    IF \E i \in 1..Len(items) : items[i].giftId = giftId
    THEN CHOOSE i \in 1..Len(items) :
            /\ items[i].giftId = giftId
            /\ \A j \in 1..(i - 1) : items[j].giftId # giftId
    ELSE 0

\* giftBoxItemSchema.quantity: min 1
ValidQuantity(quantity) == quantity >= 1

\* giftBox.save() after existingGift.quantity += quantity ($set of
\*  gifts.<i>.quantity) or after gifts.push({ giftId, quantity }) ($push).
MergedBox(box, doc, giftId, quantity) ==
    LET i == FindItem(doc.gifts, giftId)
    IN  IF i # 0
        THEN [box EXCEPT !.gifts[i].quantity = doc.gifts[i].quantity + quantity]
        ELSE [box EXCEPT !.gifts = Append(@, [giftId |-> giftId, quantity |-> quantity]),
                         !.v = @ + 1]

\* The quantity the save validates.
MergedQuantity(doc, giftId, quantity) ==
    LET i == FindItem(doc.gifts, giftId)
    IN  IF i # 0 THEN doc.gifts[i].quantity + quantity ELSE quantity

\* The version condition of the save: only a changed element carries it.
MergeVersionOk(box, doc, giftId) ==
    FindItem(doc.gifts, giftId) # 0 => box.v = doc.v

\* Every card passes for the caller's.
FindCard_any(cardId, u) == TRUE

\* Card.findOne({ _id: cardId, userId: req.user._id }) finds the card.
FindCard(cardId, u) == cards[cardId].userId = u

\* Website.findOne({ _id: websiteId, userId: req.user._id }) finds the website.
FindWebsite(websiteId, u) == websites[websiteId].userId = u

\* The cardId/websiteId test, Gift.findById, Card.findOne and Website.findOne
\*  with their checks (gift, cards and websites are only read here), then
\*  GiftBox.findOne.
addToGiftBox_findBox(s) ==
    /\ Receives(s)
    /\ \E u \in Users, giftId \in Gifts, quantity \in BoxQuantities,
          cardId \in Cards \cup {None}, websiteId \in Websites \cup {None},
          ok \in BOOLEAN :
        /\ received' = received + 1
        /\ LET b == FindOpenBox(u, cardId, websiteId)
               r == Request("addToGiftBox", "create",
                            [user |-> u, giftId |-> giftId, quantity |-> quantity,
                             cardId |-> cardId, websiteId |-> websiteId], NoLoc)
           IN  req' = [req EXCEPT ![s] =
                    IF cardId = None /\ websiteId = None THEN Respond(r, 400)
                    ELSE IF ~ok THEN Respond(r, 500)
                    ELSE IF ~gifts[giftId].exists \/ ~gifts[giftId].isActive
                    THEN Respond(r, 404)
                    ELSE IF cardId # None /\ ~FindCard(cardId, u) THEN Respond(r, 404)
                    ELSE IF websiteId # None /\ ~FindWebsite(websiteId, u)
                    THEN Respond(r, 404)
                    ELSE IF b = 0 THEN r
                    ELSE Goto(r, "save", [box |-> b, doc |-> giftBoxes[b]])]
        /\ UNCHANGED <<wallets, gifts, giftBoxes, cards, websites, gateway, refCount, limit, rsvps>>

\* GiftBox.create(...)
addToGiftBox_create(s) ==
    \E ok \in BOOLEAN :
        /\ At(s, "addToGiftBox", "create")
        /\ IF ok
           THEN LET doc == NewGiftBox(req[s].in.user, req[s].in.cardId,
                                      req[s].in.websiteId)
                IN  /\ giftBoxes' = Append(giftBoxes, doc)
                    /\ req' = [req EXCEPT ![s] =
                            Goto(@, "link", [box |-> Len(giftBoxes) + 1, doc |-> doc])]
           ELSE /\ req' = [req EXCEPT ![s] = Respond(@, 500)]
                /\ UNCHANGED giftBoxes
        /\ UNCHANGED <<wallets, gifts, cards, websites, gateway, refCount, received, limit, rsvps>>

\* Card.findByIdAndUpdate(cardId, { giftBox }) or, without a cardId,
\*  Website.findByIdAndUpdate(websiteId, { giftBox }).
addToGiftBox_link(s) ==
    /\ At(s, "addToGiftBox", "link")
    /\ IF req[s].in.cardId # None
       THEN /\ cards' = [cards EXCEPT ![req[s].in.cardId].giftBox = req[s].loc.box]
            /\ UNCHANGED websites
       ELSE /\ websites' = [websites EXCEPT ![req[s].in.websiteId].giftBox =
                                                req[s].loc.box]
            /\ UNCHANGED cards
    /\ req' = [req EXCEPT ![s] = Goto(@, "save", @.loc)]
    /\ UNCHANGED <<wallets, gifts, giftBoxes, gateway, refCount, received, limit, rsvps>>

\* The merge of the gift into the copy and giftBox.save().
addToGiftBox_save(s) ==
    \E ok \in BOOLEAN :
        /\ At(s, "addToGiftBox", "save")
        /\ LET b == req[s].loc.box
               doc == req[s].loc.doc
               giftId == req[s].in.giftId
               quantity == req[s].in.quantity
           IN  IF /\ ok
                  /\ ValidQuantity(MergedQuantity(doc, giftId, quantity))
                  /\ MergeVersionOk(giftBoxes[b], doc, giftId)
               THEN /\ giftBoxes' = [giftBoxes EXCEPT ![b] =
                                        preSave(MergedBox(@, doc, giftId, quantity))]
                    /\ req' = [req EXCEPT ![s] = Goto(@, "populate", NoLoc)]
               ELSE /\ req' = [req EXCEPT ![s] = Respond(@, 500)]
                    /\ UNCHANGED giftBoxes
        /\ UNCHANGED <<wallets, gifts, cards, websites, gateway, refCount, received, limit, rsvps>>

\* The answer, with the buyer charged for the gift added.
addToGiftBox_populate_charging(s) ==
    /\ At(s, "addToGiftBox", "populate")
    /\ req' = [req EXCEPT ![s] = Respond(@, 200)]
    /\ wallets' = [wallets EXCEPT ![req[s].in.user].balance =
                        @ - gifts[req[s].in.giftId].price * req[s].in.quantity]
    /\ UNCHANGED <<gifts, giftBoxes, cards, websites, gateway, refCount, received, limit, rsvps>>

\* GiftBox.findById(giftBox._id).populate("gifts.giftId") for the answer.
addToGiftBox_populate(s) ==
    \E ok \in BOOLEAN :
        /\ At(s, "addToGiftBox", "populate")
        /\ req' = [req EXCEPT ![s] = Respond(@, IF ok THEN 200 ELSE 500)]
        /\ UNCHANGED <<wallets, gifts, giftBoxes, cards, websites, gateway, refCount,
                       received, limit, rsvps>>

\* -------------------------------------------------------- redeemGiftBox
\* GiftBox.findOne({ redemptionCode: code }): the box with the code, 0 if none.
FindBoxByCode(code) ==
    IF \E b \in 1..Len(giftBoxes) : giftBoxes[b].redemptionCode = code
    THEN CHOOSE b \in 1..Len(giftBoxes) : giftBoxes[b].redemptionCode = code
    ELSE 0

\* The already-redeemed test left out.
AlreadyRedeemed_never(box) == FALSE

\* giftBox.isRedeemed
AlreadyRedeemed(box) == box.isRedeemed

\* .populate("gifts.giftId"): every item with its Gift document as it is now.
Populated(items) ==
    [i \in 1..Len(items) |->
        [giftId |-> items[i].giftId, quantity |-> items[i].quantity,
         gift |-> gifts[items[i].giftId]]]

\* The value of the first line item alone.
TotalValue_first(items) ==
    IF items = <<>> THEN 0
    ELSE Head(items).gift.value * Head(items).quantity

\* gifts.reduce((sum, item) => sum + gift.value * item.quantity, 0)
RECURSIVE TotalValue(_)
TotalValue(items) ==
    IF items = <<>> THEN 0
    ELSE TotalValue(Tail(items)) + Head(items).gift.value * Head(items).quantity

\* A populated item whose gift is gone is null: gift.value throws.
PopulateFailed(items) == \E i \in 1..Len(items) : ~items[i].gift.exists

\* giftBox.isRedeemed = true; giftBox.redeemedAt = new Date(); giftBox.save():
\*  $set of both.
RedeemedBox(box) == [box EXCEPT !.isRedeemed = TRUE]

\* wallet.balance += totalValue; transactions.push({ type: "credit", ...,
\*  status: "completed" }); wallet.save(): $set of the copy's balance, $push of
\*  the transaction.
CreditedWallet(w, balance, totalValue, code) ==
    [w EXCEPT !.balance = balance + totalValue,
              !.transactions = Append(@, Tx("credit", totalValue,
                                            RedeemReference(code), "completed")),
              !.v = @ + 1]

\* The codes a request may name: those of the boxes created and one more.
Codes == 1..(Len(giftBoxes) + 1)

\* The route's auth middleware, then GiftBox.findOne(...).populate(...) with
\*  the not-found and already-redeemed checks.
redeemGiftBox_findBox(s) ==
    /\ Receives(s)
    /\ \E u \in Users \cup {None}, code \in Codes :
        /\ received' = received + 1
        /\ LET b == FindBoxByCode(code)
               r == Request("redeemGiftBox", "saveBox", [user |-> u, code |-> code],
                            NoLoc)
           IN  IF u = None THEN req' = [req EXCEPT ![s] = Respond(r, 401)]
               ELSE \E ok \in BOOLEAN :
                    req' = [req EXCEPT ![s] =
                        IF ~ok THEN Respond(r, 500)
                        ELSE IF b = 0 THEN Respond(r, 404)
                        ELSE IF AlreadyRedeemed(giftBoxes[b]) THEN Respond(r, 400)
                        ELSE Goto(r, "saveBox",
                                  [box |-> b, items |-> Populated(giftBoxes[b].gifts),
                                   balance |-> 0])]
        /\ UNCHANGED <<wallets, gifts, giftBoxes, cards, websites, gateway, refCount, limit, rsvps>>

\* Mark as redeemed and giftBox.save(); then the total value.
redeemGiftBox_saveBox(s) ==
    \E ok \in BOOLEAN :
        /\ At(s, "redeemGiftBox", "saveBox")
        /\ IF ok
           THEN /\ giftBoxes' = [giftBoxes EXCEPT ![req[s].loc.box] =
                                        preSave(RedeemedBox(@))]
                /\ req' = [req EXCEPT ![s] =
                              IF PopulateFailed(req[s].loc.items) THEN Respond(@, 500)
                              ELSE Goto(@, "findWallet", @.loc)]
           ELSE /\ req' = [req EXCEPT ![s] = Respond(@, 500)]
                /\ UNCHANGED giftBoxes
        /\ UNCHANGED <<wallets, gifts, cards, websites, gateway, refCount, received, limit, rsvps>>

\* Wallet.findOne({ userId: req.user._id })
redeemGiftBox_findWallet(s) ==
    \E ok \in BOOLEAN :
        /\ At(s, "redeemGiftBox", "findWallet")
        /\ LET w == wallets[req[s].in.user]
           IN  req' = [req EXCEPT ![s] =
                    IF ~ok THEN Respond(@, 500)
                    ELSE IF w.exists
                    THEN Goto(@, "saveWallet", [@.loc EXCEPT !.balance = w.balance])
                    ELSE Goto(@, "createWallet", @.loc)]
        /\ UNCHANGED <<wallets, gifts, giftBoxes, cards, websites, gateway, refCount,
                       received, limit, rsvps>>

\* Wallet.create({ userId: req.user._id }): userId is unique.
redeemGiftBox_createWallet(s) ==
    /\ At(s, "redeemGiftBox", "createWallet")
    /\ LET u == req[s].in.user
       IN  IF wallets[u].exists
           THEN /\ req' = [req EXCEPT ![s] = Respond(@, 500)]
                /\ UNCHANGED wallets
           ELSE /\ wallets' = [wallets EXCEPT ![u] = NewWallet]
                /\ req' = [req EXCEPT ![s] =
                        Goto(@, "saveWallet", [@.loc EXCEPT !.balance = NewWallet.balance])]
    /\ UNCHANGED <<gifts, giftBoxes, cards, websites, gateway, refCount, received, limit, rsvps>>

\* The credit and wallet.save().
redeemGiftBox_saveWallet(s) ==
    \E ok \in BOOLEAN :
        /\ At(s, "redeemGiftBox", "saveWallet")
        /\ LET u == req[s].in.user
           IN  IF ok
               THEN /\ wallets' = [wallets EXCEPT ![u] =
                            CreditedWallet(@, req[s].loc.balance,
                                           TotalValue(req[s].loc.items), req[s].in.code)]
                    /\ req' = [req EXCEPT ![s] = Respond(@, 200)]
               ELSE /\ req' = [req EXCEPT ![s] = Respond(@, 500)]
                    /\ UNCHANGED wallets
        /\ UNCHANGED <<gifts, giftBoxes, cards, websites, gateway, refCount, received, limit, rsvps>>

\* ---------------------------------------------------- updateGift, deleteGift
\* A field of the request body that is not given, and one that is.
Undefined == <<>>
Given(x) == <<x>>

\* The bodies an updateGift request may carry: a new value, a new price (the
\*  schema allows 0 for both), a deactivation, or none of them (the other
\*  fields are not given).
GiftUpdates ==
    [value : {Undefined, Given(200)}, price : {Undefined, Given(0)},
     isActive : {Undefined, Given(FALSE)}]

\* Gift.findByIdAndUpdate(id, { ..., value, ..., isActive, ... }): the fields
\*  given are set.
UpdatedGift(g, body) ==
    [g EXCEPT !.value = IF body.value = Undefined THEN @ ELSE body.value[1],
              !.price = IF body.price = Undefined THEN @ ELSE body.price[1],
              !.isActive = IF body.isActive = Undefined THEN @ ELSE body.isActive[1]]

\* Gift.findByIdAndDelete(id)
DeletedGift(g) == [g EXCEPT !.exists = FALSE]

\* updateGift: one findByIdAndUpdate, 404 when the gift is gone.
updateGift(s) ==
    /\ Receives(s)
    /\ \E giftId \in Gifts, body \in GiftUpdates, ok \in BOOLEAN :
        /\ received' = received + 1
        /\ LET r == Request("updateGift", "done", [giftId |-> giftId, body |-> body],
                            NoLoc)
           IN  IF ~ok
               THEN /\ req' = [req EXCEPT ![s] = Respond(r, 500)]
                    /\ UNCHANGED gifts
               ELSE IF ~gifts[giftId].exists
               THEN /\ req' = [req EXCEPT ![s] = Respond(r, 404)]
                    /\ UNCHANGED gifts
               ELSE /\ gifts' = [gifts EXCEPT ![giftId] = UpdatedGift(@, body)]
                    /\ req' = [req EXCEPT ![s] = Respond(r, 200)]
        /\ UNCHANGED <<wallets, giftBoxes, cards, websites, gateway, refCount, limit, rsvps>>

\* deleteGift: one findByIdAndDelete, 404 when the gift is gone.
deleteGift(s) ==
    /\ Receives(s)
    /\ \E giftId \in Gifts, ok \in BOOLEAN :
        /\ received' = received + 1
        /\ LET r == Request("deleteGift", "done", [giftId |-> giftId], NoLoc)
           IN  IF ~ok
               THEN /\ req' = [req EXCEPT ![s] = Respond(r, 500)]
                    /\ UNCHANGED gifts
               ELSE IF ~gifts[giftId].exists
               THEN /\ req' = [req EXCEPT ![s] = Respond(r, 404)]
                    /\ UNCHANGED gifts
               ELSE /\ gifts' = [gifts EXCEPT ![giftId] = DeletedGift(@)]
                    /\ req' = [req EXCEPT ![s] = Respond(r, 200)]
        /\ UNCHANGED <<wallets, giftBoxes, cards, websites, gateway, refCount, limit, rsvps>>

\* ------------------------------------------------- submitRSVP, updateRSVP
\* The events: e1 with maxAttendees set, e2 not in the database.
EventIds == {"e1", "e2"}
Guests == {"a@x", "b@x"}
maxAttendees == 2

\* Event.findById(eventId)
FindEvent(eventId) ==
    [exists |-> eventId = "e1", maxAttendees |-> maxAttendees]

\* The status and plusOnes a request body may carry (plusOnes is optional).
RsvpStatuses == {"accepted", "declined"}
RsvpPlusOnes == {Undefined, Given(0), Given(1)}

\* No RSVP document of a guest for an event.
NoRsvp == [exists |-> FALSE, status |-> "pending", plusOnes |-> 0]
NoRsvps == [e \in EventIds |-> [g \in Guests |-> NoRsvp]]

\* plusOnes || 0
PlusOnesOrZero(plusOnes) == IF plusOnes = Undefined THEN 0 ELSE plusOnes[1]

\* plusOnes ?? rsvp.plusOnes
PlusOnesOrKept(plusOnes, rsvp) == IF plusOnes = Undefined THEN rsvp.plusOnes ELSE plusOnes[1]

\* RSVP.find({ eventId, status: "accepted" }).reduce((sum, r) => sum + 1 +
\*  r.plusOnes, 0)
RECURSIVE SumAttending(_, _)
SumAttending(eventId, guests) ==
    IF guests = {} THEN 0
    ELSE LET g == CHOOSE x \in guests : TRUE
             r == rsvps[eventId][g]
         IN  SumAttending(eventId, guests \ {g})
                + (IF r.exists /\ r.status = "accepted" THEN 1 + r.plusOnes ELSE 0)

totalAttending(eventId) == SumAttending(eventId, Guests)

\* newTotal = totalAttending + 1 + (plusOnes || 0); newTotal > event.maxAttendees
OverCapacity(total, plusOnes, event) ==
    total + 1 + PlusOnesOrZero(plusOnes) > event.maxAttendees

\* Event.findById(eventId) of submitRSVP.
submitRSVP_findEvent(s) ==
    /\ Receives(s)
    /\ \E eventId \in EventIds, guestEmail \in Guests, status \in RsvpStatuses,
          plusOnes \in RsvpPlusOnes, ok \in BOOLEAN :
        /\ received' = received + 1
        /\ LET event == FindEvent(eventId)
               r == Request("submitRSVP", "find",
                            [eventId |-> eventId, guestEmail |-> guestEmail,
                             status |-> status, plusOnes |-> plusOnes], NoLoc)
           IN  req' = [req EXCEPT ![s] =
                    IF ~ok THEN Respond(r, 500)
                    ELSE IF ~event.exists THEN Respond(r, 404)
                    ELSE IF status = "accepted" THEN r
                    ELSE Goto(r, "findOne", NoLoc)]
        /\ UNCHANGED <<wallets, gifts, giftBoxes, cards, websites, gateway, refCount,
                       limit, rsvps>>

\* RSVP.find({ eventId, status: "accepted" }) and the capacity test.
submitRSVP_find(s) ==
    \E ok \in BOOLEAN :
        /\ At(s, "submitRSVP", "find")
        /\ LET in == req[s].in
           IN  req' = [req EXCEPT ![s] =
                    IF ~ok THEN Respond(@, 500)
                    ELSE IF OverCapacity(totalAttending(in.eventId), in.plusOnes,
                                         FindEvent(in.eventId))
                    THEN Respond(@, 400)
                    ELSE Goto(@, "findOne", NoLoc)]
        /\ UNCHANGED <<wallets, gifts, giftBoxes, cards, websites, gateway, refCount,
                       received, limit, rsvps>>

\* RSVP.findOne({ eventId, guestEmail })
submitRSVP_findOne(s) ==
    \E ok \in BOOLEAN :
        /\ At(s, "submitRSVP", "findOne")
        /\ LET in == req[s].in
           IN  req' = [req EXCEPT ![s] =
                    IF ~ok THEN Respond(@, 500)
                    ELSE IF rsvps[in.eventId][in.guestEmail].exists
                    THEN Goto(@, "save", NoLoc)
                    ELSE Goto(@, "create", NoLoc)]
        /\ UNCHANGED <<wallets, gifts, giftBoxes, cards, websites, gateway, refCount,
                       received, limit, rsvps>>

\* rsvp.status = status; rsvp.plusOnes = plusOnes || 0; rsvp.save()
submitRSVP_save(s) ==
    \E ok \in BOOLEAN :
        /\ At(s, "submitRSVP", "save")
        /\ LET in == req[s].in
           IN  IF ok
               THEN /\ rsvps' = [rsvps EXCEPT ![in.eventId][in.guestEmail] =
                            [exists |-> TRUE, status |-> in.status,
                             plusOnes |-> PlusOnesOrZero(in.plusOnes)]]
                    /\ req' = [req EXCEPT ![s] = Respond(@, 200)]
               ELSE /\ req' = [req EXCEPT ![s] = Respond(@, 500)]
                    /\ UNCHANGED rsvps
        /\ UNCHANGED <<wallets, gifts, giftBoxes, cards, websites, gateway, refCount,
                       received, limit>>

\* RSVP.create({ eventId, guestEmail, status, plusOnes: plusOnes || 0, ... }):
\*  (eventId, guestEmail) is unique, a duplicate is answered 400.
submitRSVP_create(s) ==
    \E ok \in BOOLEAN :
        /\ At(s, "submitRSVP", "create")
        /\ LET in == req[s].in
           IN  IF ~ok
               THEN /\ req' = [req EXCEPT ![s] = Respond(@, 500)]
                    /\ UNCHANGED rsvps
               ELSE IF rsvps[in.eventId][in.guestEmail].exists
               THEN /\ req' = [req EXCEPT ![s] = Respond(@, 400)]
                    /\ UNCHANGED rsvps
               ELSE /\ rsvps' = [rsvps EXCEPT ![in.eventId][in.guestEmail] =
                            [exists |-> TRUE, status |-> in.status,
                             plusOnes |-> PlusOnesOrZero(in.plusOnes)]]
                    /\ req' = [req EXCEPT ![s] = Respond(@, 200)]
        /\ UNCHANGED <<wallets, gifts, giftBoxes, cards, websites, gateway, refCount,
                       received, limit>>

\* RSVP.findOne({ eventId, guestEmail }) of updateRSVP.
updateRSVP_findOne(s) ==
    /\ Receives(s)
    /\ \E eventId \in EventIds, guestEmail \in Guests, status \in RsvpStatuses,
          plusOnes \in RsvpPlusOnes, ok \in BOOLEAN :
        /\ received' = received + 1
        /\ LET rsvp == rsvps[eventId][guestEmail]
               r == Request("updateRSVP", "findEvent",
                            [eventId |-> eventId, guestEmail |-> guestEmail,
                             status |-> status, plusOnes |-> plusOnes],
                            [rsvp |-> rsvp])
           IN  req' = [req EXCEPT ![s] =
                    IF ~ok THEN Respond(r, 500)
                    ELSE IF ~rsvp.exists THEN Respond(r, 404)
                    ELSE IF status = "accepted" /\ rsvp.status # "accepted" THEN r
                    ELSE Goto(r, "save", [rsvp |-> rsvp])]
        /\ UNCHANGED <<wallets, gifts, giftBoxes, cards, websites, gateway, refCount,
                       limit, rsvps>>

\* Event.findById(eventId) of updateRSVP.
updateRSVP_findEvent(s) ==
    \E ok \in BOOLEAN :
        /\ At(s, "updateRSVP", "findEvent")
        /\ req' = [req EXCEPT ![s] =
                IF ~ok THEN Respond(@, 500)
                ELSE IF FindEvent(req[s].in.eventId).exists THEN Goto(@, "find", @.loc)
                ELSE Goto(@, "save", @.loc)]
        /\ UNCHANGED <<wallets, gifts, giftBoxes, cards, websites, gateway, refCount,
                       received, limit, rsvps>>

\* RSVP.find({ eventId, status: "accepted" }) and the capacity test.
updateRSVP_find(s) ==
    \E ok \in BOOLEAN :
        /\ At(s, "updateRSVP", "find")
        /\ LET in == req[s].in
           IN  req' = [req EXCEPT ![s] =
                    IF ~ok THEN Respond(@, 500)
                    ELSE IF OverCapacity(totalAttending(in.eventId), in.plusOnes,
                                         FindEvent(in.eventId))
                    THEN Respond(@, 400)
                    ELSE Goto(@, "save", @.loc)]
        /\ UNCHANGED <<wallets, gifts, giftBoxes, cards, websites, gateway, refCount,
                       received, limit, rsvps>>

\* rsvp.status = status; rsvp.plusOnes = plusOnes ?? rsvp.plusOnes; rsvp.save()
updateRSVP_save(s) ==
    \E ok \in BOOLEAN :
        /\ At(s, "updateRSVP", "save")
        /\ LET in == req[s].in
           IN  IF ok /\ rsvps[in.eventId][in.guestEmail].exists
               THEN /\ rsvps' = [rsvps EXCEPT ![in.eventId][in.guestEmail] =
                            [exists |-> TRUE, status |-> in.status,
                             plusOnes |-> PlusOnesOrKept(in.plusOnes, req[s].loc.rsvp)]]
                    /\ req' = [req EXCEPT ![s] = Respond(@, 200)]
               ELSE /\ req' = [req EXCEPT ![s] = Respond(@, 500)]
                    /\ UNCHANGED rsvps
        /\ UNCHANGED <<wallets, gifts, giftBoxes, cards, websites, gateway, refCount,
                       received, limit>>

\* ---------------------------------------------------------------- start
\* The catalog: a priced gift with a tracked stock, a gift without stock.
Catalog(stock) ==
    [g \in Gifts |->
        IF g = "g1"
        THEN [exists |-> TRUE, isActive |-> TRUE, price |-> 60, value |-> 100,
              tracked |-> TRUE, stock |-> stock]
        ELSE [exists |-> TRUE, isActive |-> TRUE, price |-> 30, value |-> 50,
              tracked |-> FALSE, stock |-> 0]]

\* The database before any wallet or gift box exists.
Init ==
    /\ wallets = [u \in Users |-> NoWallet]
    /\ gifts = Catalog(MaxStock)
    /\ giftBoxes = <<>>
    /\ cards = [c \in Cards |-> [userId |-> "u1", giftBox |-> 0]]
    /\ websites = [w \in Websites |-> [userId |-> "u1", giftBox |-> 0]]
    /\ gateway = {}
    /\ refCount = 0
    /\ req = [s \in Slots |-> Idle]
    /\ received = 0
    /\ limit = MaxInFlight
    /\ rsvps = NoRsvps

fundWallet(s) ==
    \/ fundWallet_findOne(s)
    \/ fundWallet_create(s)
    \/ fundWallet_save(s)
    \/ fundWallet_initialize(s)

verifyWalletPayment(s) ==
    \/ verifyWalletPayment_verify(s)
    \/ verifyWalletPayment_findOne(s)
    \/ verifyWalletPayment_save(s)

paystackWebhook(s) ==
    \/ paystackWebhook_findOne(s)
    \/ paystackWebhook_save(s)

purchaseGift(s) ==
    \/ purchaseGift_findGift(s)
    \/ purchaseGift_findWallet(s)
    \/ purchaseGift_saveWallet(s)
    \/ purchaseGift_saveGift(s)

addToGiftBox(s) ==
    \/ addToGiftBox_findBox(s)
    \/ addToGiftBox_create(s)
    \/ addToGiftBox_link(s)
    \/ addToGiftBox_save(s)
    \/ addToGiftBox_populate(s)

submitRSVP(s) ==
    \/ submitRSVP_findEvent(s)
    \/ submitRSVP_find(s)
    \/ submitRSVP_findOne(s)
    \/ submitRSVP_save(s)
    \/ submitRSVP_create(s)

updateRSVP(s) ==
    \/ updateRSVP_findOne(s)
    \/ updateRSVP_findEvent(s)
    \/ updateRSVP_find(s)
    \/ updateRSVP_save(s)

redeemGiftBox(s) ==
    \/ redeemGiftBox_findBox(s)
    \/ redeemGiftBox_saveBox(s)
    \/ redeemGiftBox_findWallet(s)
    \/ redeemGiftBox_createWallet(s)
    \/ redeemGiftBox_saveWallet(s)

Next ==
    \E s \in Slots :
        \/ fundWallet(s)
        \/ verifyWalletPayment(s)
        \/ paystackWebhook(s)
        \/ purchaseGift(s)
        \/ addToGiftBox(s)
        \/ redeemGiftBox(s)
        \/ updateGift(s)
        \/ deleteGift(s)
        \/ submitRSVP(s)
        \/ updateRSVP(s)

Spec == Init /\ [][Next]_vars

\* Wallet funding alone: fundWallet, verifyWalletPayment, paystackWebhook.
NextLedger == \E s \in Slots : fundWallet(s) \/ verifyWalletPayment(s) \/ paystackWebhook(s)

SpecLedger == Init /\ [][NextLedger]_vars

\* Gift boxes alone: addToGiftBox, redeemGiftBox.
NextBox == \E s \in Slots : addToGiftBox(s) \/ redeemGiftBox(s)

SpecBox == Init /\ [][NextBox]_vars

\* Requests one at a time: a request is received when none is in flight.
InitSeq ==
    /\ wallets = [u \in Users |-> NoWallet]
    /\ gifts = Catalog(MaxStock)
    /\ giftBoxes = <<>>
    /\ cards = [c \in Cards |-> [userId |-> "u1", giftBox |-> 0]]
    /\ websites = [w \in Websites |-> [userId |-> "u1", giftBox |-> 0]]
    /\ gateway = {}
    /\ refCount = 0
    /\ req = [s \in Slots |-> Idle]
    /\ received = 0
    /\ limit = 1
    /\ rsvps = NoRsvps

SpecSeqLedger == InitSeq /\ [][NextLedger]_vars

SpecSeqBox == InitSeq /\ [][NextBox]_vars

\* A wallet after fundWallet of the minimum amount and a successful
\*  verifyWalletPayment: the n-th reference, completed.
FundedWallet(n) ==
    [exists |-> TRUE, balance |-> MinFundAmount,
     transactions |-> <<Tx("credit", MinFundAmount, <<"WC", n>>, "completed")>>,
     v |-> 1]

\* The database once u1 and then u2 have funded their wallets and verified
\*  the payments.
InitFunded ==
    /\ wallets = [u \in Users |-> FundedWallet(IF u = "u1" THEN 1 ELSE 2)]
    /\ \E stock \in 1..MaxStock : gifts = Catalog(stock)
    /\ giftBoxes = <<>>
    /\ cards = [c \in Cards |-> [userId |-> "u1", giftBox |-> 0]]
    /\ websites = [w \in Websites |-> [userId |-> "u1", giftBox |-> 0]]
    /\ gateway = {<<"WC", 1>>, <<"WC", 2>>}
    /\ refCount = 2
    /\ req = [s \in Slots |-> Idle]
    /\ received = 0
    /\ limit = MaxInFlight
    /\ rsvps = NoRsvps

\* Purchases alone, by users with funded wallets.
NextPurchase == \E s \in Slots : purchaseGift(s)

SpecPurchase == InitFunded /\ [][NextPurchase]_vars

\* The same with a single unit of g1 left.
InitStockOne ==
    /\ wallets = [u \in Users |-> FundedWallet(IF u = "u1" THEN 1 ELSE 2)]
    /\ gifts = Catalog(1)
    /\ giftBoxes = <<>>
    /\ cards = [c \in Cards |-> [userId |-> "u1", giftBox |-> 0]]
    /\ websites = [w \in Websites |-> [userId |-> "u1", giftBox |-> 0]]
    /\ gateway = {<<"WC", 1>>, <<"WC", 2>>}
    /\ refCount = 2
    /\ req = [s \in Slots |-> Idle]
    /\ received = 0
    /\ limit = MaxInFlight
    /\ rsvps = NoRsvps

SpecStockOne == InitStockOne /\ [][NextPurchase]_vars

\* u1's wallet after two fundWallet requests, none settled yet.
PendingWallet2 ==
    PendingWallet(PendingWallet(NewWallet, MinFundAmount, <<"WC", 1>>),
                  MinFundAmount, <<"WC", 2>>)

InitPending ==
    /\ wallets = [u \in Users |-> IF u = "u1" THEN PendingWallet2 ELSE NoWallet]
    /\ gifts = Catalog(MaxStock)
    /\ giftBoxes = <<>>
    /\ cards = [c \in Cards |-> [userId |-> "u1", giftBox |-> 0]]
    /\ websites = [w \in Websites |-> [userId |-> "u1", giftBox |-> 0]]
    /\ gateway = {<<"WC", 1>>, <<"WC", 2>>}
    /\ refCount = 2
    /\ req = [s \in Slots |-> Idle]
    /\ received = 0
    /\ limit = MaxInFlight
    /\ rsvps = NoRsvps

\* Settlement alone, of fundings already recorded.
NextSettle == \E s \in Slots : verifyWalletPayment(s) \/ paystackWebhook(s)

SpecSettle == InitPending /\ [][NextSettle]_vars

\* Settlement of the fundings recorded, and purchases out of the wallet.
NextWallet ==
    \E s \in Slots : verifyWalletPayment(s) \/ paystackWebhook(s) \/ purchaseGift(s)

SpecWallet == InitPending /\ [][NextWallet]_vars

\* Gift boxes and the catalog's administration, one request at a time.
NextShop ==
    \E s \in Slots :
        addToGiftBox(s) \/ redeemGiftBox(s) \/ updateGift(s) \/ deleteGift(s)

SpecSeqShop == InitSeq /\ [][NextShop]_vars

\* The database once u1 has funded and verified a wallet, u2 has none, and
\*  requests are handled one at a time.
InitSeqFunded ==
    /\ wallets = [u \in Users |-> IF u = "u1" THEN FundedWallet(1) ELSE NoWallet]
    /\ \E stock \in 1..MaxStock : gifts = Catalog(stock)
    /\ giftBoxes = <<>>
    /\ cards = [c \in Cards |-> [userId |-> "u1", giftBox |-> 0]]
    /\ websites = [w \in Websites |-> [userId |-> "u1", giftBox |-> 0]]
    /\ gateway = {<<"WC", 1>>}
    /\ refCount = 1
    /\ req = [s \in Slots |-> Idle]
    /\ received = 0
    /\ limit = 1
    /\ rsvps = NoRsvps

\* Purchases and the catalog's administration, one request at a time.
NextStore == \E s \in Slots : purchaseGift(s) \/ updateGift(s) \/ deleteGift(s)

SpecSeqStore == InitSeqFunded /\ [][NextStore]_vars

\* RSVPs to the event, one request at a time.
NextRsvp == \E s \in Slots : submitRSVP(s) \/ updateRSVP(s)

SpecSeqRsvp == InitSeq /\ [][NextRsvp]_vars

\* ================================================================ claims
\* The sum of the amounts of the transactions of this type and status.
RECURSIVE SumTx(_, _, _)
SumTx(txs, type, status) ==
    IF txs = <<>> THEN 0
    ELSE SumTx(Tail(txs), type, status)
         + (IF Head(txs).type = type /\ Head(txs).status = status
            THEN Head(txs).amount ELSE 0)

\* The slot that receives the request this step receives.
Received(s) ==
    /\ received' = received + 1
    /\ Free(s)
    /\ \A t \in Slots : t < s => ~Free(t)

Answered(s, op) == req[s].op = op /\ req[s].pc = "done"

\* C1: every wallet's balance is the sum of its completed credits minus the
\*  sum of its completed debits.
C1_BalanceIsLedgerSum ==
    \A u \in Users :
        wallets[u].exists =>
            wallets[u].balance =
                SumTx(wallets[u].transactions, "credit", "completed")
                - SumTx(wallets[u].transactions, "debit", "completed")

\* The number of credits recorded for the redemption of this code, over all
\*  wallets.
RedeemCredits(code) ==
    LET n(u) == Cardinality({i \in 1..Len(wallets[u].transactions) :
                    wallets[u].transactions[i].reference = RedeemReference(code)})
    IN  n("u1") + n("u2")

\* The request this step receives on slot s is a redemption, by a signed-in
\*  user, of a box that is redeemed already.
ReceivesSecondRedeem(s) ==
    /\ Received(s)
    /\ req'[s].op = "redeemGiftBox"
    /\ req'[s].in.user # None
    /\ FindBoxByCode(req'[s].in.code) # 0
    /\ giftBoxes[FindBoxByCode(req'[s].in.code)].isRedeemed

\* The redeemer of the request on slot s holds a credit for its code.
CreditedRedeemer(s) ==
    \E i \in 1..Len(wallets[req[s].in.user].transactions) :
        wallets[req[s].in.user].transactions[i] =
            Tx("credit", wallets[req[s].in.user].transactions[i].amount,
               RedeemReference(req[s].in.code), "completed")

\* C2: with requests handled one at a time, a code is credited at most once,
\*  a redemption answered 200 has credited its redeemer, and a redemption of a
\*  box already redeemed is rejected at once (400, or 500 when the storage
\*  fails) and changes no wallet (no balance, no transaction) and no box.
C2_SecondRedeemRejected ==
    /\ [](\A code \in Codes : RedeemCredits(code) <= 1)
    /\ [](\A s \in Slots :
            Answered(s, "redeemGiftBox") /\ req[s].res = 200 =>
                RedeemCredits(req[s].in.code) = 1 /\ CreditedRedeemer(s))
    /\ [][\A s \in Slots :
            ReceivesSecondRedeem(s) =>
                /\ req'[s].pc = "done"
                /\ req'[s].res \in {400, 500}
                /\ wallets' = wallets
                /\ giftBoxes' = giftBoxes]_vars

\* C2 witness: a redemption was answered 400 for a code whose one credit, of a
\*  positive value, is in a wallet.
C2_Witness ==
    \E s \in Slots :
        /\ Answered(s, "redeemGiftBox")
        /\ req[s].res = 400
        /\ RedeemCredits(req[s].in.code) = 1
        /\ \E u \in Users : \E i \in 1..Len(wallets[u].transactions) :
            /\ wallets[u].transactions[i].reference = RedeemReference(req[s].in.code)
            /\ wallets[u].transactions[i].amount > 0

\* C3: whatever the interleaving of the redemptions of one code, at most one
\*  credit with the reference REDEEM_<code> is ever recorded.
C3_AtMostOneRedeemCredit == \A code \in Codes : RedeemCredits(code) <= 1

\* C4: with one unit of g1 in stock, two purchases of one unit each never both
\*  succeed.
C4_OneUnitSoldOnce ==
    ~ \E s, t \in Slots :
        /\ s # t
        /\ Answered(s, "purchaseGift") /\ Answered(t, "purchaseGift")
        /\ req[s].in.giftId = "g1" /\ req[t].in.giftId = "g1"
        /\ req[s].in.quantity = 1 /\ req[t].in.quantity = 1
        /\ req[s].res = 200 /\ req[t].res = 200

\* This step is the successful gift.save() of the purchase on slot s.
SavesGift(s) ==
    /\ At(s, "purchaseGift", "saveGift")
    /\ req'[s].pc = "done"
    /\ req'[s].res = 200

\* C5: a tracked stock is a natural number in every state, and the gift.save()
\*  of a purchase of q units happens only when the stock is at least q then.
C5_StockDecrementGuarded ==
    /\ [](\A g \in Gifts : gifts[g].stock \in Nat)
    /\ [][\A s \in Slots :
            SavesGift(s) => gifts[req[s].in.giftId].stock >= req[s].in.quantity]_vars

\* C6: no wallet is overdrawn: its balance is never negative and its completed
\*  debits never exceed its completed credits, so of two purchases that
\*  together cost more than the wallet holds at most one is debited.
C6_NeverOverdrawn ==
    \A u \in Users :
        wallets[u].exists =>
            /\ wallets[u].balance >= 0
            /\ SumTx(wallets[u].transactions, "debit", "completed")
                   <= SumTx(wallets[u].transactions, "credit", "completed")

\* The funding reference a settling request names.
RequestReference(r) ==
    IF r.op = "paystackWebhook" THEN r.in.raw.reference ELSE r.in.reference

\* A webhook delivery carries charge.success and, in kobo, this amount.
Delivers(r, amount) ==
    r.op = "paystackWebhook" =>
        /\ r.in.raw.event = "charge.success"
        /\ r.in.raw.amount = amount * KoboPerNaira

\* This step is the wallet.save() of the handler op on slot s, for a
\*  transaction that is no longer pending in a wallet whose balance is its
\*  ledger sum, after a request of the other handler for the same reference
\*  was answered 200.
SettlesSecond(s, op, other) ==
    /\ At(s, op, "save")
    /\ req'[s].pc = "done"
    /\ LET doc == req[s].loc
           w == wallets[doc.userId]
       IN  /\ ~IsPending(w.transactions[doc.index])
           /\ w.balance = SumTx(w.transactions, "credit", "completed")
                            - SumTx(w.transactions, "debit", "completed")
           /\ Delivers(req[s], doc.amount)
           /\ \E t \in Slots :
                /\ Answered(t, other)
                /\ req[t].res = 200
                /\ RequestReference(req[t]) = RequestReference(req[s])
                /\ Delivers(req[t], doc.amount)

\* C7: of a verifyWalletPayment call and a charge.success delivery for one
\*  reference, the one that saves after the transaction was settled changes
\*  nothing in any wallet.
C7_SecondSettleChangesNothing ==
    [][\A s \in Slots :
        (\/ SettlesSecond(s, "verifyWalletPayment", "paystackWebhook")
         \/ SettlesSecond(s, "paystackWebhook", "verifyWalletPayment"))
            => wallets' = wallets]_vars

\* C8: a webhook request whose signature is not the HMAC, under the secret
\*  key, of the body it carries is answered 400 at once and changes no wallet.
C8_BadSignatureRejected ==
    [][\A s \in Slots :
        (/\ Received(s)
         /\ req'[s].op = "paystackWebhook"
         /\ req'[s].in.signature # Hmac(SecretKey, req'[s].in.raw))
            => /\ req'[s].pc = "done"
               /\ req'[s].res = 400
               /\ wallets' = wallets]_vars

\* C9: a webhook request is answered 200, or 400 when the handler's signature
\*  check fails; a request that passes the check is never answered otherwise.
C9_WebhookAlwaysAcknowledged ==
    \A s \in Slots :
        Answered(s, "paystackWebhook") =>
            \/ req[s].res = 200
            \/ /\ req[s].res = 400
               /\ ~verifyWebhookSignature(Stringify(ParseJson(req[s].in.raw)),
                                          req[s].in.signature)

\* The items of the box for this gift, and their quantities summed.
ItemsOf(box, giftId) == {i \in 1..Len(box.gifts) : box.gifts[i].giftId = giftId}

RECURSIVE QuantityOf(_, _)
QuantityOf(items, giftId) ==
    IF items = <<>> THEN 0
    ELSE QuantityOf(Tail(items), giftId)
         + (IF Head(items).giftId = giftId THEN Head(items).quantity ELSE 0)

\* This step is the successful giftBox.save() of the addToGiftBox on slot s.
SavesBox(s) ==
    /\ At(s, "addToGiftBox", "save")
    /\ req'[s].pc = "populate"

\* C10: an open box has at most one item per gift, and every successful
\*  addToGiftBox of q units of a gift raises the quantity the box holds of
\*  that gift by q.
C10_OneItemPerGift ==
    /\ [](\A b \in 1..Len(giftBoxes) : \A g \in Gifts :
            ~giftBoxes[b].isRedeemed => Cardinality(ItemsOf(giftBoxes[b], g)) <= 1)
    /\ [][\A s \in Slots :
            SavesBox(s) =>
                QuantityOf(giftBoxes'[req[s].loc.box].gifts, req[s].in.giftId)
                    = QuantityOf(giftBoxes[req[s].loc.box].gifts, req[s].in.giftId)
                      + req[s].in.quantity]_vars

\* The unredeemed boxes of this sender that hold an item and carry this card
\*  id, and those that carry this website id.
FilledBoxesForCard(u, cardId) ==
    {b \in 1..Len(giftBoxes) :
        /\ giftBoxes[b].senderId = u /\ giftBoxes[b].cardId = cardId
        /\ ~giftBoxes[b].isRedeemed /\ giftBoxes[b].gifts # <<>>}

FilledBoxesForWebsite(u, websiteId) ==
    {b \in 1..Len(giftBoxes) :
        /\ giftBoxes[b].senderId = u /\ giftBoxes[b].websiteId = websiteId
        /\ ~giftBoxes[b].isRedeemed /\ giftBoxes[b].gifts # <<>>}

\* This step is the GiftBox.create of the addToGiftBox on slot s.
CreatesBox(s) ==
    /\ At(s, "addToGiftBox", "create")
    /\ Len(giftBoxes') = Len(giftBoxes) + 1

\* C11: with requests handled one at a time, an addToGiftBox for a card (or
\*  a website) for which the sender has an unredeemed box filled by an
\*  earlier call creates no box, and no box ever changes its redemption code.
C11_SequentialAddsShareBox ==
    [][/\ \A s \in Slots :
            CreatesBox(s) =>
                /\ req[s].in.cardId # None =>
                        FilledBoxesForCard(req[s].in.user, req[s].in.cardId) = {}
                /\ req[s].in.websiteId # None =>
                        FilledBoxesForWebsite(req[s].in.user, req[s].in.websiteId) = {}
       /\ \A b \in 1..Len(giftBoxes) :
            giftBoxes'[b].redemptionCode = giftBoxes[b].redemptionCode]_vars

\* The unredeemed boxes of this sender that carry this card id, and those
\*  that carry this website id.
UnredeemedForCard(u, cardId) ==
    {b \in 1..Len(giftBoxes) :
        /\ giftBoxes[b].senderId = u /\ giftBoxes[b].cardId = cardId
        /\ ~giftBoxes[b].isRedeemed}

UnredeemedForWebsite(u, websiteId) ==
    {b \in 1..Len(giftBoxes) :
        /\ giftBoxes[b].senderId = u /\ giftBoxes[b].websiteId = websiteId
        /\ ~giftBoxes[b].isRedeemed}

\* C12: a sender has at most one unredeemed box per card and at most one per
\*  website.
C12_OneOpenBoxPerTarget ==
    \A u \in Users :
        /\ \A c \in Cards : Cardinality(UnredeemedForCard(u, c)) <= 1
        /\ \A w \in Websites : Cardinality(UnredeemedForWebsite(u, w)) <= 1

\* C13: a box that is redeemed stays redeemed, every box has a redemption
\*  code from its creation on, and no step changes the code of a box.
C13_RedeemedAndCodeStable ==
    /\ [](\A b \in 1..Len(giftBoxes) : giftBoxes[b].redemptionCode # NoCode)
    /\ [][/\ Len(giftBoxes') >= Len(giftBoxes)
          /\ \A b \in 1..Len(giftBoxes) :
                /\ giftBoxes[b].isRedeemed => giftBoxes'[b].isRedeemed
                /\ giftBoxes'[b].redemptionCode = giftBoxes[b].redemptionCode]_vars

\* C13 witness: a box with an item was redeemed by a request answered 200 and
\*  an addToGiftBox saved after that (its handler is at the final lookup).
C13_Witness ==
    \E b \in 1..Len(giftBoxes) :
        /\ giftBoxes[b].isRedeemed
        /\ giftBoxes[b].gifts # <<>>
        /\ \E s \in Slots :
            /\ Answered(s, "redeemGiftBox") /\ req[s].res = 200
            /\ req[s].in.code = giftBoxes[b].redemptionCode
        /\ \E t \in Slots : At(t, "addToGiftBox", "populate")

\* C14: no step changes the item list of a box that is redeemed.
C14_RedeemedItemsFrozen ==
    [][\A b \in 1..Len(giftBoxes) :
        giftBoxes[b].isRedeemed => giftBoxes'[b].gifts = giftBoxes[b].gifts]_vars

\* C15: no transaction is ever removed, no transaction changes its type,
\*  amount or reference, and a status changes only from pending, to completed
\*  or failed (hence at most once).
C15_TransactionsSettleOnce ==
    [][\A u \in Users :
        /\ Len(wallets'[u].transactions) >= Len(wallets[u].transactions)
        /\ \A i \in 1..Len(wallets[u].transactions) :
            LET old == wallets[u].transactions[i]
                new == wallets'[u].transactions[i]
            IN  /\ new.type = old.type
                /\ new.amount = old.amount
                /\ new.reference = old.reference
                /\ new.status # old.status =>
                        old.status = "pending" /\ new.status \in {"completed", "failed"}]_vars

\* C15 witness: a funding was settled, a completed debit was appended after
\*  it, and a later settling request for a reference of the wallet was
\*  answered 200.
C15_Witness ==
    \E u \in Users :
        LET txs == wallets[u].transactions
        IN  /\ \E i, j \in 1..Len(txs) :
                /\ i < j
                /\ txs[i].type = "credit" /\ txs[i].status = "completed"
                /\ txs[j].type = "debit" /\ txs[j].status = "completed"
                /\ \E s \in Slots :
                    /\ req[s].op \in {"verifyWalletPayment", "paystackWebhook"}
                    /\ req[s].pc = "done" /\ req[s].res = 200
                    /\ RequestReference(req[s]) = txs[i].reference

\* The value of a list of items at the values the gifts have now: for every
\*  gift of the set, the quantity held times the gift's value.
RECURSIVE ValueNow(_, _)
ValueNow(items, giftIds) ==
    IF giftIds = {} THEN 0
    ELSE LET g == CHOOSE x \in giftIds : TRUE
         IN  QuantityOf(items, g) * gifts[g].value + ValueNow(items, giftIds \ {g})

\* This step is the wallet.save() of the redemption on slot s, answered 200.
CreditsRedeemer(s) ==
    /\ At(s, "redeemGiftBox", "saveWallet")
    /\ req'[s].pc = "done"
    /\ req'[s].res = 200

\* C16: with requests handled one at a time, the redemption answered 200
\*  raises the redeemer's balance by the value of the box's items at the
\*  gifts' present values, appends one completed credit of that amount with
\*  the reference REDEEM_<code>, changes no other wallet, and the box is
\*  redeemed.
C16_RedeemCreditsTotalValue ==
    [][\A s \in Slots :
        CreditsRedeemer(s) =>
            LET u == req[s].in.user
                b == FindBoxByCode(req[s].in.code)
                totalValue == ValueNow(giftBoxes[b].gifts, Gifts)
            IN  /\ giftBoxes'[b].isRedeemed
                /\ wallets'[u].balance = wallets[u].balance + totalValue
                /\ wallets'[u].transactions =
                        Append(wallets[u].transactions,
                               Tx("credit", totalValue, RedeemReference(req[s].in.code),
                                  "completed"))
                /\ \A v \in Users \ {u} : wallets'[v] = wallets[v]]_vars

\* C16 witness: a redemption was answered 200 for a box holding a gift whose
\*  value was changed after the catalog was set up, and the redeemer holds the
\*  credit, of the box's present value.
C16_Witness ==
    \E s \in Slots :
        /\ Answered(s, "redeemGiftBox") /\ req[s].res = 200
        /\ CreditedRedeemer(s)
        /\ LET b == FindBoxByCode(req[s].in.code)
           IN  /\ \E i \in 1..Len(giftBoxes[b].gifts) :
                    gifts[giftBoxes[b].gifts[i].giftId].value
                        # Catalog(MaxStock)[giftBoxes[b].gifts[i].giftId].value
               /\ \E i \in 1..Len(wallets[req[s].in.user].transactions) :
                    wallets[req[s].in.user].transactions[i] =
                        Tx("credit", ValueNow(giftBoxes[b].gifts, Gifts),
                           RedeemReference(req[s].in.code), "completed")

\* A redemption of this code is being handled.
Redeeming(code) ==
    \E s \in Slots :
        /\ req[s].op = "redeemGiftBox"
        /\ req[s].pc # "done"
        /\ req[s].in.code = code

\* C17: once no redemption of its code is under way, a redeemed box has its
\*  REDEEM_<code> credit in a wallet.
C17_RedeemedMeansCredited ==
    \A b \in 1..Len(giftBoxes) :
        (giftBoxes[b].isRedeemed /\ ~Redeeming(giftBoxes[b].redemptionCode))
            => RedeemCredits(giftBoxes[b].redemptionCode) >= 1

\* The wallet.save() of a purchase succeeds.
DebitsBuyer(s) ==
    /\ At(s, "purchaseGift", "saveWallet")
    /\ \/ req'[s].pc = "saveGift"
       \/ req'[s].pc = "done" /\ req'[s].res = 200

\* C18: with requests handled one at a time, a purchase of q units of a gift
\*  of price p writes the buyer's balance less p*q and one more transaction,
\*  a completed debit of p*q, and changes no other wallet and no gift; it goes
\*  on to gift.save() exactly when the stock is tracked, and that save, when
\*  answered 200, writes the stock less q and changes no wallet; an untracked
\*  stock stays untracked.
C18_PurchaseDebitsAndDecrements ==
    [][\A s \in Slots :
        LET u == req[s].in.user
            g == req[s].in.giftId
            q == req[s].in.quantity
        IN  /\ DebitsBuyer(s) =>
                /\ wallets'[u].balance = wallets[u].balance - gifts[g].price * q
                /\ wallets'[u].transactions =
                        Append(wallets[u].transactions,
                               Tx("debit", gifts[g].price * q, GiftReference, "completed"))
                /\ \A v \in Users \ {u} : wallets'[v] = wallets[v]
                /\ gifts' = gifts
                /\ (req'[s].pc = "saveGift") <=> gifts[g].tracked
            /\ SavesGift(s) =>
                /\ gifts[g].tracked /\ gifts'[g].tracked
                /\ gifts'[g].stock = gifts[g].stock - q
                /\ \A h \in Gifts \ {g} : gifts'[h] = gifts[h]
                /\ wallets' = wallets]_vars

\* C18 witness: a purchase of the gift with the tracked stock was answered
\*  200 after a purchase of the gift without stock: the buyer's wallet holds
\*  two debits, one of them of the untracked gift's price.
C18_Witness ==
    \E s \in Slots :
        /\ Answered(s, "purchaseGift") /\ req[s].res = 200
        /\ gifts[req[s].in.giftId].tracked
        /\ LET txs == wallets[req[s].in.user].transactions
           IN  /\ Cardinality({i \in 1..Len(txs) : txs[i].type = "debit"}) = 2
               /\ \E i \in 1..Len(txs) :
                    txs[i] = Tx("debit", gifts["g2"].price, GiftReference, "completed")

\* The wallet.save() of a verifyWalletPayment call succeeds.
VerifySettles(s) ==
    /\ At(s, "verifyWalletPayment", "save")
    /\ req'[s].pc = "done"
    /\ req'[s].res = 200

\* C19: with requests handled one at a time, a verifyWalletPayment call for
\*  which the gateway reports success and which finds the funding of amount A
\*  pending saves that transaction as completed, nothing else of it changed,
\*  and the wallet's balance plus exactly A, and changes no other transaction
\*  and no other wallet; a call for which the gateway reports another status
\*  is answered at once, not with 200, and changes no wallet.
C19_VerifyCreditsFunding ==
    /\ [](\A s \in Slots :
            (req[s].op = "verifyWalletPayment" /\ req[s].in.status # "success")
                => (req[s].pc = "done" /\ req[s].res # 200))
    /\ [][\A s \in Slots :
            /\ VerifySettles(s) =>
                \E u \in Users :
                    LET txs == wallets[u].transactions
                        i == FindTx(txs, req[s].in.reference)
                    IN  /\ wallets[u].exists /\ i # 0
                        /\ req[s].in.status = "success"
                        /\ txs[i].type = "credit" /\ txs[i].status = "pending"
                        /\ wallets'[u].transactions =
                                [txs EXCEPT ![i].status = "completed"]
                        /\ wallets'[u].balance = wallets[u].balance + txs[i].amount
                        /\ \A v \in Users \ {u} : wallets'[v] = wallets[v]
            /\ (/\ Received(s)
                /\ req'[s].op = "verifyWalletPayment"
                /\ req'[s].in.status # "success") => wallets' = wallets]_vars

\* C19 witness: a verifyWalletPayment call with the gateway's success was
\*  answered 200 for a funding that fundWallet recorded: the transaction is
\*  completed and the balance is its amount.
C19_Witness ==
    \E s \in Slots, u \in Users :
        /\ Answered(s, "verifyWalletPayment") /\ req[s].res = 200
        /\ req[s].in.status = "success"
        /\ LET txs == wallets[u].transactions
               i == FindTx(txs, req[s].in.reference)
           IN  /\ i # 0
               /\ txs[i].status = "completed"
               /\ wallets[u].balance = txs[i].amount

\* A purchase the database, as it is, does not allow: the gift is missing or
\*  inactive, its tracked stock is below the quantity, the buyer has no wallet
\*  or a balance below price times quantity.
ToBeRejected(u, g, q) ==
    \/ ~gifts[g].exists
    \/ ~gifts[g].isActive
    \/ gifts[g].tracked /\ gifts[g].stock < q
    \/ ~wallets[u].exists
    \/ wallets[u].balance < gifts[g].price * q

\* The handler of a purchase answers 404 or 400.
RejectsPurchase(s) ==
    /\ req'[s].op = "purchaseGift"
    /\ req'[s].pc = "done"
    /\ req'[s].res \in {400, 404}
    /\ req'[s] # req[s]

\* C20: with requests handled one at a time, a purchase that is to be
\*  rejected never gets to the handler's writes; the step that answers a
\*  purchase with 404 or 400 is the receipt of the request or the wallet
\*  lookup (no write of the handler came before it) and changes no wallet and
\*  no gift.
C20_RejectedPurchaseChangesNothing ==
    /\ [](\A s \in Slots :
            (req[s].op = "purchaseGift" /\ req[s].pc \in {"saveWallet", "saveGift"})
                => /\ gifts[req[s].in.giftId].exists
                   /\ gifts[req[s].in.giftId].isActive
                   /\ req[s].pc = "saveWallet"
                        => ~ToBeRejected(req[s].in.user, req[s].in.giftId,
                                         req[s].in.quantity))
    /\ [][\A s \in Slots :
            RejectsPurchase(s) =>
                /\ Received(s) \/ At(s, "purchaseGift", "findWallet")
                /\ wallets' = wallets
                /\ gifts' = gifts]_vars

\* C20 witness: a purchase by a buyer whose wallet, after an earlier debit,
\*  holds less than price times quantity was answered 400.
C20_Witness ==
    \E s \in Slots :
        /\ Answered(s, "purchaseGift") /\ req[s].res = 400
        /\ LET w == wallets[req[s].in.user]
               g == gifts[req[s].in.giftId]
           IN  /\ w.exists /\ g.exists /\ g.isActive
               /\ ~(g.tracked /\ g.stock < req[s].in.quantity)
               /\ w.balance < g.price * req[s].in.quantity
               /\ \E i \in 1..Len(w.transactions) : w.transactions[i].type = "debit"

\* The handler of a purchase of a gift with a tracked stock, the buyer's
\*  wallet charged, ends.
EndsChargedPurchase(s) ==
    /\ At(s, "purchaseGift", "saveGift")
    /\ req'[s].pc = "done"

\* C21: a purchase that has charged the buyer's wallet for a gift with a
\*  tracked stock ends with its decrement applied: the stock in the database
\*  is lowered by the quantity bought.
C21_ChargedMeansDecremented ==
    [][\A s \in Slots :
        EndsChargedPurchase(s) =>
            /\ gifts'[req[s].in.giftId].exists
            /\ gifts'[req[s].in.giftId].stock =
                    gifts[req[s].in.giftId].stock - req[s].in.quantity]_vars

\* The gateway's initialize call of the fundWallet on slot s fails.
InitializeFails(s) ==
    /\ At(s, "fundWallet", "initialize")
    /\ req'[s].pc = "done"
    /\ req'[s].res # 200

\* C22: when the gateway's initialize call fails, the fundWallet request fails
\*  and the caller's wallet holds no transaction with the reference the
\*  request generated.
C22_FailedInitializeLeavesNoPending ==
    [][\A s \in Slots :
        InitializeFails(s) =>
            FindTx(wallets'[req[s].in.user].transactions, req[s].loc.reference) = 0]_vars

\* C23: a redemption requested without an authenticated user for the code
\*  of a box that is open is not turned away: it is not answered 401, and
\*  when it was answered 200 the box is redeemed and no wallet holds a
\*  REDEEM_<code> credit.
C23_AnonymousRedeemPaysNothing ==
    [][\A s \in Slots :
        (/\ Received(s)
         /\ req'[s].op = "redeemGiftBox"
         /\ req'[s].in.user = None
         /\ FindBoxByCode(req'[s].in.code) # 0
         /\ ~giftBoxes[FindBoxByCode(req'[s].in.code)].isRedeemed)
            => /\ req'[s].res # 401
               /\ req'[s].res = 200 =>
                    /\ giftBoxes'[FindBoxByCode(req'[s].in.code)].isRedeemed
                    /\ RedeemCredits(req'[s].in.code) = 0]_vars

\* An addToGiftBox request is received that names a card or a website of
\*  another user, or a gift that is missing or inactive.
ReceivesForeignAdd(s) ==
    /\ Received(s)
    /\ req'[s].op = "addToGiftBox"
    /\ LET in == req'[s].in
       IN  \/ in.cardId # None /\ cards[in.cardId].userId # in.user
           \/ in.websiteId # None /\ websites[in.websiteId].userId # in.user
           \/ ~gifts[in.giftId].exists
           \/ ~gifts[in.giftId].isActive

\* C24: an addToGiftBox request for a card or a website that is not the
\*  caller's, or for a gift that is missing or inactive, is answered at once
\*  with an error; no box is created, no box is changed and no card or
\*  website gets a giftBox reference.
C24_ForeignAddChangesNothing ==
    [][\A s \in Slots :
        ReceivesForeignAdd(s) =>
            /\ req'[s].pc = "done"
            /\ req'[s].res \in {400, 404, 500}
            /\ giftBoxes' = giftBoxes
            /\ cards' = cards
            /\ websites' = websites]_vars

\* C24 witness: with a box in the database and linked to its card, an
\*  addToGiftBox of a user who does not own the card was answered 404.
C24_Witness ==
    \E s \in Slots :
        /\ Answered(s, "addToGiftBox") /\ req[s].res = 404
        /\ req[s].in.cardId # None
        /\ cards[req[s].in.cardId].userId # req[s].in.user
        /\ gifts[req[s].in.giftId].exists /\ gifts[req[s].in.giftId].isActive
        /\ cards[req[s].in.cardId].giftBox # 0
        /\ Len(giftBoxes) = 1

\* The handler of the addToGiftBox on slot s takes a step.
AddStep(s) ==
    /\ req'[s] # req[s]
    /\ req'[s].op = "addToGiftBox"

\* C25: no step of an addToGiftBox handler, whatever its answer, changes a
\*  wallet or a gift of the catalog.
C25_AddLeavesWalletsAndStock ==
    [][\A s \in Slots : AddStep(s) => (wallets' = wallets /\ gifts' = gifts)]_vars

\* C25 witness: an addToGiftBox was answered 200 while a wallet held the
\*  credit of a redemption.
C25_Witness ==
    \E s \in Slots :
        /\ Answered(s, "addToGiftBox") /\ req[s].res = 200
        /\ \E u \in Users : wallets[u].exists /\ wallets[u].balance > 0

\* C26: every gift box has exactly one of cardId and websiteId.
C26_BoxHasOneTarget ==
    \A b \in 1..Len(giftBoxes) :
        (giftBoxes[b].cardId # None) # (giftBoxes[b].websiteId # None)

\* C27: every transaction of every wallet has an amount above 0.
C27_AmountsPositive ==
    \A u \in Users :
        \A i \in 1..Len(wallets[u].transactions) : wallets[u].transactions[i].amount > 0

\* C28: every line item of every gift box has a quantity of 1 or more, and
\*  the save of an addToGiftBox lowers the quantity of no item of its box.
C28_QuantitiesNeverDrop ==
    /\ [](\A b \in 1..Len(giftBoxes) :
            \A i \in 1..Len(giftBoxes[b].gifts) : giftBoxes[b].gifts[i].quantity >= 1)
    /\ [][\A s \in Slots :
            SavesBox(s) =>
                LET b == req[s].loc.box
                IN  \A i \in 1..Len(giftBoxes[b].gifts) :
                        giftBoxes'[b].gifts[i].quantity >= giftBoxes[b].gifts[i].quantity]_vars

\* The wallet.save() of the webhook delivery on slot s succeeds.
WebhookSettles(s) ==
    /\ At(s, "paystackWebhook", "save")
    /\ req'[s].pc = "done"
    /\ req'[s].res = 200

\* C29: a webhook delivery that settles a pending funding leaves the wallet
\*  as verifyWalletPayment would: the transaction completed and the balance
\*  plus the amount of the transaction, whatever amount the payload reports.
C29_WebhookCreditsLikeVerify ==
    [][\A s \in Slots :
        WebhookSettles(s) =>
            LET doc == req[s].loc
                w == wallets[doc.userId]
            IN  /\ wallets'[doc.userId].transactions =
                        [w.transactions EXCEPT ![doc.index].status = "completed"]
                /\ wallets'[doc.userId].balance =
                        w.balance + w.transactions[doc.index].amount]_vars

\* C30: the attendance of an event with maxAttendees set, one plus the plus
\*  ones of every accepted RSVP, never exceeds maxAttendees.
C30_AttendanceWithinCapacity ==
    \A e \in EventIds :
        FindEvent(e).exists => totalAttending(e) <= FindEvent(e).maxAttendees

====
